---- MODULE Spec2Model ----
(***************************************************************************)
(* Daily activity planner (src/src/daily-activity-scheduler.tsx): the      *)
(* focus-timer state machine and the drag/reschedule gesture resolver of   *)
(* DayPlannerApp, modelled as a state machine over the component's React   *)
(* state.                                                                  *)
(*                                                                         *)
(* Units.  Date.now() is kept in milliseconds.  Calendar pixels and clock  *)
(* minutes are kept exact by scaling: a position is a whole number of      *)
(* thirds of a pixel and a fractional time is a whole number of half       *)
(* minutes, because CAL_HEIGHT_PX = AWAKE_MINUTES * (40/60).               *)
(* The code computes them as IEEE 754 doubles, which differ from the exact *)
(* values by rounding only; the _Double definitions compute the doubles    *)
(* themselves, for the properties that depend on the rounding.             *)
(***************************************************************************)
EXTENDS Integers, Sequences, FiniteSets, TLC

VARIABLES
    activities,     \* useState activities: ordered list of Activity records
    form,           \* useState form: the add/edit form contents
    sleepConfig,    \* useState sleepConfig: [start, duration]
    timerState,     \* useState timerState
    focusMode,      \* useState focusMode: [isEnabled, focusedActivityId]
    dragState,      \* useState dragState
    clock,          \* the wall clock, Date.now()
    notifications,  \* number of completion notifications signalled so far
    escClosure,     \* timerState captured by the Escape key handler's closure
    pendingClears,  \* setTimeout callbacks of onDragEnd not yet run
    overlapSince,   \* history: instant since which the timer has been running
                    \* with focus mode enabled without interruption, or Null
    movedBeyond,    \* history: some pointer-move of the current gesture was
                    \* more than 3 px away from the pointer-down position
    clickedAt,      \* history: position of the latest background click that
                    \* created an activity, or Null
    nowMin,         \* useState now, as now.getHours() * 60 + now.getMinutes()
    alertShown,     \* the findings listed by the latest alert() of onSubmit,
                    \* or None
    lastMoveY       \* history: pointer position of the latest pointer-move of
                    \* the gesture in progress, or None

vars == <<activities, form, sleepConfig, timerState, focusMode, dragState,
          clock, notifications, escClosure, pendingClears, overlapSince,
          movedBeyond, clickedAt, nowMin, alertShown, lastMoveY>>

timerVars == <<timerState, focusMode, clock, notifications, escClosure,
               overlapSince>>
dragVars == <<activities, form, dragState, pendingClears, movedBeyond,
              clickedAt, nowMin, alertShown, lastMoveY>>

\* ---------- Bounds of the model ----------
MaxAdvances == 1
MaxSessions == 2
MaxNotifications == 1
MaxPendingClears == 2

\* ---------- Values ----------
Null == -1
NoId == "null"
MsPerSecond == 1000
\* Date.now() is positive: the clock starts one second after the epoch
Epoch == MsPerSecond
SecondsPerMinute == 60
ClockSteps == {500, 60000}
\* two of the quick-start buttons [5, 15, 25, 45]
QuickMinutes == {5, 45}

HHMM(h, m) == [h |-> h, m |-> m]

\* ---------- Utilities ----------
toMinutes(hhmm) == hhmm.h * 60 + hhmm.m

toHHMM(mins) == [h |-> mins \div 60, m |-> mins % 60]

Max(a, b) == IF a >= b THEN a ELSE b
Min(a, b) == IF a <= b THEN a ELSE b

clamp(v, a, b) == Max(a, Min(b, v))

\* activities.find(a => a.id === id): the index of the first match, 0 if none
RECURSIVE findFrom(_, _, _)
findFrom(acts, id, i) ==
    IF i > Len(acts) THEN 0
    ELSE IF acts[i].id = id THEN i
    ELSE findFrom(acts, id, i + 1)

find(acts, id) == findFrom(acts, id, 1)

Ids(acts) == {acts[i].id : i \in 1..Len(acts)}

\* ---------- Initial React state ----------
InitialTimerState ==
    [isRunning |-> FALSE, isPaused |-> FALSE, elapsedTime |-> 0,
     baseElapsedTime |-> 0, startTime |-> Null, activityId |-> NoId,
     targetDuration |-> 0, focusSessions |-> <<>>]

InitialFocusMode == [isEnabled |-> FALSE, focusedActivityId |-> NoId]

InitialForm ==
    [id |-> NoId, title |-> "", category |-> "Work", start |-> HHMM(9, 0),
     duration |-> 60]

\* a nullable object is the empty sequence (null) or a one-element sequence
None == <<>>
Some(x) == <<x>>

\* the dragState that onDragEnd resets to, before its justFinishedDrag flag
EmptyDragState ==
    [isDragging |-> FALSE, draggedActivity |-> None, dragOffsetY |-> 0,
     startY |-> 0, shadowPosition |-> None, currentMouseY |-> 0,
     justFinishedDrag |-> FALSE, hasMoved |-> FALSE]

DefaultSleepConfig == [start |-> HHMM(23, 0), duration |-> 540]
\* the minute of the day at which the component is mounted
InitialNowMin == 9 * 60

\* a list like DEFAULTS, with starts off the 15-minute grid
DragActivities ==
    << [id |-> "seed-0", title |-> "Sleep", category |-> "Sleep",
        start |-> HHMM(23, 0), duration |-> 540],
       [id |-> "seed-1", title |-> "Work", category |-> "Work",
        start |-> HHMM(9, 32), duration |-> 480],
       [id |-> "seed-2", title |-> "Gym", category |-> "Gym",
        start |-> HHMM(18, 13), duration |-> 60] >>

SleepConfigs ==
    { [start |-> HHMM(23, 0), duration |-> 540],
      [start |-> HHMM(1, 40), duration |-> 450],
      [start |-> HHMM(20, 7), duration |-> 1 ] }

\* pointer-down offsets below the top edge of a block, thirds of a pixel
DownOffsets == {0, 30}
\* pointer-move displacements from the pointer-down position, thirds of a pixel
MoveDeltas == {-3000, -10, 9, 10, 600, 3000}

TimerActivities ==
    << [id |-> "a1", title |-> "Work", category |-> "Work",
        start |-> HHMM(9, 30), duration |-> 1] >>

\* ---------- Focus timer: state updaters ----------
\* targetDurationSeconds of startTimer
targetDurationSeconds(acts, activityId, customDurationMinutes) ==
    LET i == IF activityId # NoId THEN find(acts, activityId) ELSE 0
    IN  IF customDurationMinutes # Null /\ customDurationMinutes # 0
        THEN customDurationMinutes * SecondsPerMinute
        ELSE IF i # 0 THEN acts[i].duration * SecondsPerMinute ELSE 0

\* startTimer that never resets the elapsed time for a new activity
startTimerUpdate_KeepElapsed(prev, activityId, target, t) ==
    [prev EXCEPT !.isRunning = TRUE, !.isPaused = FALSE, !.startTime = t,
                 !.activityId = activityId, !.targetDuration = target,
                 !.elapsedTime = prev.elapsedTime,
                 !.baseElapsedTime = prev.elapsedTime]

startTimerUpdate(prev, activityId, target, t) ==
    LET isNewActivity == prev.activityId # activityId
        baseTime == IF isNewActivity THEN 0 ELSE prev.elapsedTime
    IN  [prev EXCEPT !.isRunning = TRUE, !.isPaused = FALSE, !.startTime = t,
                     !.activityId = activityId, !.targetDuration = target,
                     !.elapsedTime = baseTime, !.baseElapsedTime = baseTime]

\* the record pushed onto focusSessions
Session(prev, t) ==
    [startTime |-> prev.startTime, endTime |-> t, activityId |-> prev.activityId]

\* pauseTimer that forgets to clear isRunning
pauseTimerUpdate_StillRunning(prev, focusEnabled, t) ==
    LET updatedSessions ==
            IF focusEnabled /\ prev.startTime # Null
            THEN Append(prev.focusSessions, Session(prev, t))
            ELSE prev.focusSessions
    IN  [prev EXCEPT !.isPaused = TRUE,
                     !.baseElapsedTime = prev.elapsedTime,
                     !.focusSessions = updatedSessions]

pauseTimerUpdate(prev, focusEnabled, t) ==
    LET updatedSessions ==
            IF focusEnabled /\ prev.startTime # Null
            THEN Append(prev.focusSessions, Session(prev, t))
            ELSE prev.focusSessions
    IN  [prev EXCEPT !.isPaused = TRUE, !.isRunning = FALSE,
                     !.baseElapsedTime = prev.elapsedTime,
                     !.focusSessions = updatedSessions]

\* resumeTimer that counts the paused interval as elapsed time
resumeTimerUpdate_AddsPause(prev, t) ==
    [prev EXCEPT !.isRunning = TRUE, !.isPaused = FALSE, !.startTime = t,
                 !.elapsedTime = prev.baseElapsedTime
                                   + ((t - prev.startTime) \div MsPerSecond),
                 !.baseElapsedTime = prev.baseElapsedTime
                                       + ((t - prev.startTime) \div MsPerSecond)]

resumeTimerUpdate(prev, t) ==
    [prev EXCEPT !.isRunning = TRUE, !.isPaused = FALSE, !.startTime = t,
                 !.baseElapsedTime = prev.elapsedTime]

\* stopTimer that spreads prev and so keeps activityId and targetDuration
stopTimerUpdate_KeepsActivity(prev, focusEnabled, t) ==
    LET updatedSessions ==
            IF focusEnabled /\ prev.startTime # Null
            THEN Append(prev.focusSessions, Session(prev, t))
            ELSE prev.focusSessions
    IN  [prev EXCEPT !.isRunning = FALSE, !.isPaused = FALSE,
                     !.elapsedTime = 0, !.baseElapsedTime = 0,
                     !.startTime = Null, !.focusSessions = updatedSessions]

stopTimerUpdate(prev, focusEnabled, t) ==
    LET updatedSessions ==
            IF focusEnabled /\ prev.startTime # Null
            THEN Append(prev.focusSessions, Session(prev, t))
            ELSE prev.focusSessions
    IN  [isRunning |-> FALSE, isPaused |-> FALSE, elapsedTime |-> 0,
         baseElapsedTime |-> 0, startTime |-> Null, activityId |-> NoId,
         targetDuration |-> 0, focusSessions |-> updatedSessions]

\* setTimerState of toggleFocusMode; seenRunning and seenStart are the
\* timerState.isRunning and the truthiness of timerState.startTime in the
\* closure of the render the handler belongs to
toggleFocusTimerUpdate(prev, focusEnabled, seenRunning, seenStart, t) ==
    IF focusEnabled /\ seenRunning /\ seenStart
    THEN [prev EXCEPT !.focusSessions = Append(prev.focusSessions, Session(prev, t))]
    ELSE prev

toggleFocusUpdate(prev, activityId) ==
    [isEnabled |-> ~prev.isEnabled,
     focusedActivityId |-> IF prev.isEnabled THEN NoId ELSE activityId]

\* totalElapsed of the timer update effect
totalElapsed(ts, t) ==
    ts.baseElapsedTime + ((t - ts.startTime) \div MsPerSecond)

\* the auto-complete condition of the timer update effect
targetReached(ts, t) ==
    ts.targetDuration > 0 /\ totalElapsed(ts, t) >= ts.targetDuration

\* timer update effect that clamps the elapsed time but keeps the timer running
timerEffectUpdate_KeepsRunning(prev, t) ==
    IF prev.isRunning /\ ~prev.isPaused /\ prev.startTime # Null
    THEN IF targetReached(prev, t)
         THEN [prev EXCEPT !.elapsedTime = prev.targetDuration,
                           !.baseElapsedTime = prev.targetDuration]
         ELSE [prev EXCEPT !.elapsedTime = totalElapsed(prev, t)]
    ELSE prev

\* the effect takes its auto-complete branch
effectCompletes(ts, t) ==
    ts.isRunning /\ ~ts.isPaused /\ ts.startTime # Null /\ targetReached(ts, t)

\* both setTimerState calls of the timer update effect, in order
timerEffectUpdate(prev, t) ==
    IF prev.isRunning /\ ~prev.isPaused /\ prev.startTime # Null
    THEN LET s1 == IF totalElapsed(prev, t) # prev.elapsedTime
                   THEN [prev EXCEPT !.elapsedTime = totalElapsed(prev, t)]
                   ELSE prev
         IN  IF targetReached(prev, t)
             THEN [s1 EXCEPT !.isRunning = FALSE, !.isPaused = FALSE,
                             !.elapsedTime = s1.targetDuration,
                             !.baseElapsedTime = s1.targetDuration]
             ELSE s1
    ELSE prev

\* ---------- History bookkeeping ----------
TrackOverlap ==
    overlapSince' =
        IF timerState'.isRunning /\ focusMode'.isEnabled
        THEN (IF overlapSince # Null THEN overlapSince ELSE clock')
        ELSE Null

\* the number of clock steps taken to reach instant t
Advances(t) == ((t - Epoch) \div 60000) + (((t - Epoch) % 60000) \div 500)

\* ---------- Focus timer: actions ----------
\* time passes between events
AdvanceClock ==
    /\ \E d \in ClockSteps :
          /\ Advances(clock) < MaxAdvances
          /\ clock' = clock + d
    /\ UNCHANGED <<timerState, focusMode, notifications, escClosure>>
    /\ TrackOverlap
    /\ UNCHANGED dragVars /\ UNCHANGED sleepConfig

\* the one-second interval fires (or a dependency of the effect changed): the
\* timer update effect runs against Date.now()
Tick ==
    /\ effectCompletes(timerState, clock) => notifications < MaxNotifications
    /\ timerState' = timerEffectUpdate(timerState, clock)
    /\ notifications' =
          IF effectCompletes(timerState, clock)
          THEN notifications + 1 ELSE notifications
    /\ UNCHANGED <<focusMode, clock, escClosure>>
    /\ TrackOverlap
    /\ UNCHANGED dragVars /\ UNCHANGED sleepConfig

\* startTimer(activityId, customDurationMinutes) from the Start and quick
\* buttons (no activity, timer idle) or from an activity's timer button
startTimerWith(activityId, customDurationMinutes) ==
    /\ \/ /\ activityId = NoId
          /\ ~timerState.isRunning /\ ~timerState.isPaused
       \/ /\ activityId # NoId
          /\ customDurationMinutes = Null
          /\ ~(timerState.activityId = activityId /\ timerState.isRunning)
          /\ ~(timerState.activityId = activityId /\ timerState.isPaused)
    /\ timerState' =
          startTimerUpdate(timerState, activityId,
              targetDurationSeconds(activities, activityId,
                                    customDurationMinutes), clock)
    /\ UNCHANGED <<focusMode, clock, notifications, escClosure>>
    /\ TrackOverlap
    /\ UNCHANGED dragVars /\ UNCHANGED sleepConfig

startTimer ==
    \E activityId \in Ids(activities) \cup {NoId},
       customDurationMinutes \in QuickMinutes \cup {Null} :
       startTimerWith(activityId, customDurationMinutes)

pauseTimer ==
    /\ timerState.isRunning
    /\ Len(timerState.focusSessions) < MaxSessions
    /\ timerState' = pauseTimerUpdate(timerState, focusMode.isEnabled, clock)
    /\ UNCHANGED <<focusMode, clock, notifications, escClosure>>
    /\ TrackOverlap
    /\ UNCHANGED dragVars /\ UNCHANGED sleepConfig

resumeTimer ==
    /\ timerState.isPaused
    /\ timerState' = resumeTimerUpdate(timerState, clock)
    /\ UNCHANGED <<focusMode, clock, notifications, escClosure>>
    /\ TrackOverlap
    /\ UNCHANGED dragVars /\ UNCHANGED sleepConfig

stopTimer ==
    /\ timerState.isRunning \/ timerState.isPaused \/ timerState.elapsedTime > 0
    /\ Len(timerState.focusSessions) < MaxSessions
    /\ timerState' = stopTimerUpdate(timerState, focusMode.isEnabled, clock)
    /\ UNCHANGED <<focusMode, clock, notifications, escClosure>>
    /\ TrackOverlap
    /\ UNCHANGED dragVars /\ UNCHANGED sleepConfig

\* a focus button or the overlay's exit button: the handler of the current render
toggleFocusMode ==
    /\ Len(timerState.focusSessions) < MaxSessions
    /\ \E activityId \in Ids(activities) \cup {NoId} :
          focusMode' = toggleFocusUpdate(focusMode, activityId)
    /\ timerState' =
          toggleFocusTimerUpdate(timerState, focusMode.isEnabled,
                                 timerState.isRunning, timerState.startTime # Null, clock)
    /\ escClosure' = [isRunning |-> timerState'.isRunning,
                      hasStartTime |-> timerState'.startTime # Null]
    /\ UNCHANGED <<clock, notifications>>
    /\ TrackOverlap
    /\ UNCHANGED dragVars /\ UNCHANGED sleepConfig

\* the Escape key: handleKeyDown was registered when focusMode.isEnabled last
\* changed and calls the toggleFocusMode of that render
EscapeKey ==
    /\ focusMode.isEnabled
    /\ Len(timerState.focusSessions) < MaxSessions
    /\ focusMode' = toggleFocusUpdate(focusMode, NoId)
    /\ timerState' =
          toggleFocusTimerUpdate(timerState, focusMode.isEnabled,
                                 escClosure.isRunning, escClosure.hasStartTime, clock)
    /\ escClosure' = [isRunning |-> timerState'.isRunning,
                      hasStartTime |-> timerState'.startTime # Null]
    /\ UNCHANGED <<clock, notifications>>
    /\ TrackOverlap
    /\ UNCHANGED dragVars /\ UNCHANGED sleepConfig

\* ---------- Sleep-aware calendar coordinates ----------
\* Positions are in thirds of a pixel, fractional times in half minutes.
UnitsPerPx == 3
HalvesPerMinute == 2
DAY_MINUTES == 24 * 60
AWAKE_MINUTES(sc) == DAY_MINUTES - sc.duration
\* AWAKE_MINUTES * (40 / 60) pixels
CAL_HEIGHT_PX(sc) == (AWAKE_MINUTES(sc) * 40 * UnitsPerPx) \div 60
sleepStart(sc) == toMinutes(sc.start)
sleepEnd(sc) == (sleepStart(sc) + sc.duration) % DAY_MINUTES

\* the -1 that timeToDisplayPosition returns for a time during sleep
Hidden == -1 * UnitsPerPx

\* the containment test of the non-wrapping shape, used for both shapes
timeToDisplayPosition_OneShape(sc, timeMinutes) ==
    LET normalizedTime == ((timeMinutes % DAY_MINUTES) + DAY_MINUTES) % DAY_MINUTES
        asleep == normalizedTime >= sleepStart(sc) /\ normalizedTime < sleepEnd(sc)
        fromWakeUp ==
            IF normalizedTime < sleepEnd(sc)
            THEN normalizedTime + DAY_MINUTES - sleepEnd(sc)
            ELSE normalizedTime - sleepEnd(sc)
        minutesFromWakeUp == Max(0, Min(AWAKE_MINUTES(sc), fromWakeUp))
    IN  IF asleep THEN Hidden
        ELSE (minutesFromWakeUp * CAL_HEIGHT_PX(sc)) \div AWAKE_MINUTES(sc)

timeToDisplayPosition(sc, timeMinutes) ==
    LET normalizedTime == ((timeMinutes % DAY_MINUTES) + DAY_MINUTES) % DAY_MINUTES
        asleep ==
            IF sleepStart(sc) < sleepEnd(sc)
            THEN normalizedTime >= sleepStart(sc) /\ normalizedTime < sleepEnd(sc)
            ELSE normalizedTime >= sleepStart(sc) \/ normalizedTime < sleepEnd(sc)
        fromWakeUp ==
            IF sleepStart(sc) < sleepEnd(sc) /\ normalizedTime < sleepEnd(sc)
            THEN normalizedTime + DAY_MINUTES - sleepEnd(sc)
            ELSE normalizedTime - sleepEnd(sc)
        minutesFromWakeUp == Max(0, Min(AWAKE_MINUTES(sc), fromWakeUp))
    IN  IF asleep THEN Hidden
        ELSE (minutesFromWakeUp * CAL_HEIGHT_PX(sc)) \div AWAKE_MINUTES(sc)

\* displayPositionToTime, in half minutes
displayPositionToTime(sc, position) ==
    LET clamped == Max(0, Min(CAL_HEIGHT_PX(sc), position))
        minutesFromWakeUp ==
            (clamped * AWAKE_MINUTES(sc) * HalvesPerMinute) \div CAL_HEIGHT_PX(sc)
    IN  (sleepEnd(sc) * HalvesPerMinute + minutesFromWakeUp)
            % (DAY_MINUTES * HalvesPerMinute)

\* rounding to the nearest minute, without the 15-minute grid
snappedMinutes_NoGrid(halfMinutes) ==
    (halfMinutes + 1) \div HalvesPerMinute

\* Math.round(t / 15) * 15 of a time t given in half minutes
snappedMinutes(halfMinutes) ==
    ((halfMinutes + 15) \div (15 * HalvesPerMinute)) * 15

clampedMinutes(snapped) == Max(0, Min(23 * 60 + 45, snapped))

\* ---------- Hour marks of the calendar ----------
\* the marks of the full hours from wake-up, then the mark of the sleep start
\* one pixel above the bottom when its hour differs from the last mark's
hourMarks(sc) ==
    LET awakeHours == AWAKE_MINUTES(sc) \div 60
        marks ==
            [i \in 1..(awakeHours + 1) |->
                LET minutesFromWakeUp == (i - 1) * 60
                    actualTimeMinutes ==
                        (sleepEnd(sc) + minutesFromWakeUp) % DAY_MINUTES
                IN  [minutes |-> actualTimeMinutes,
                     displayPosition |->
                         (minutesFromWakeUp * CAL_HEIGHT_PX(sc))
                             \div AWAKE_MINUTES(sc),
                     hour |-> actualTimeMinutes \div 60]]
        sleepStartHour == sleepStart(sc) \div 60
        lastMark == marks[Len(marks)]
    IN  IF lastMark.hour # sleepStartHour
        THEN Append(marks, [minutes |-> sleepStart(sc),
                            displayPosition |-> CAL_HEIGHT_PX(sc) - 1 * UnitsPerPx,
                            hour |-> sleepStartHour])
        ELSE marks

\* ---------- IEEE 754 double arithmetic ----------
\* JavaScript numbers are binary64, and the coordinate functions divide and
\* multiply them, so their results are rounded.  A wide natural is NLimbs
\* digits in base 2^15, least significant first; a double is
\* sign * man * 2^exp with a mantissa of exactly 53 bits, zero is the mantissa
\* 0 with exponent 0.  The values of the calendar are far from the ends of
\* the exponent range, so there are no subnormals, infinities or NaNs.
LimbBits == 15
Base == 2 ^ LimbBits
NLimbs == 8
MantissaBits == 53

wide(n) ==
    [i \in 1..NLimbs |->
        IF i = 1 THEN n % Base
        ELSE IF i = 2 THEN (n \div Base) % Base
        ELSE IF i = 3 THEN n \div (Base * Base)
        ELSE 0]

RECURSIVE wAddFrom(_, _, _, _)
wAddFrom(a, b, i, carry) ==
    IF i > NLimbs THEN <<>>
    ELSE <<(a[i] + b[i] + carry) % Base>>
            \o wAddFrom(a, b, i + 1, (a[i] + b[i] + carry) \div Base)
wAdd(a, b) == wAddFrom(a, b, 1, 0)

RECURSIVE wSubFrom(_, _, _, _)
wSubFrom(a, b, i, borrow) ==
    IF i > NLimbs THEN <<>>
    ELSE IF a[i] - b[i] - borrow < 0
         THEN <<a[i] - b[i] - borrow + Base>> \o wSubFrom(a, b, i + 1, 1)
         ELSE <<a[i] - b[i] - borrow>> \o wSubFrom(a, b, i + 1, 0)
\* a - b for a >= b
wSub(a, b) == wSubFrom(a, b, 1, 0)

RECURSIVE wCmpFrom(_, _, _)
wCmpFrom(a, b, i) ==
    IF i = 0 THEN 0
    ELSE IF a[i] < b[i] THEN -1
    ELSE IF a[i] > b[i] THEN 1
    ELSE wCmpFrom(a, b, i - 1)
\* -1, 0 or 1 as a < b, a = b or a > b
wCmp(a, b) == wCmpFrom(a, b, NLimbs)

RECURSIVE wMulSmallFrom(_, _, _, _)
wMulSmallFrom(a, k, i, carry) ==
    IF i > NLimbs THEN <<>>
    ELSE <<(a[i] * k + carry) % Base>>
            \o wMulSmallFrom(a, k, i + 1, (a[i] * k + carry) \div Base)
\* a * k for 0 <= k < Base
wMulSmall(a, k) == wMulSmallFrom(a, k, 1, 0)

wShiftLimbs(a, j) == [i \in 1..NLimbs |-> IF i > j THEN a[i - j] ELSE 0]
wDropLimbs(a, j) == [i \in 1..NLimbs |-> IF i + j <= NLimbs THEN a[i + j] ELSE 0]

RECURSIVE wMulFrom(_, _, _)
wMulFrom(a, b, j) ==
    IF j > NLimbs THEN wide(0)
    ELSE IF b[j] = 0 THEN wMulFrom(a, b, j + 1)
    ELSE wAdd(wShiftLimbs(wMulSmall(a, b[j]), j - 1), wMulFrom(a, b, j + 1))
wMul(a, b) == wMulFrom(a, b, 1)

RECURSIVE wDivSmallFrom(_, _, _, _)
wDivSmallFrom(a, d, i, rem) ==
    IF i = 0 THEN <<>>
    ELSE wDivSmallFrom(a, d, i - 1, (rem * Base + a[i]) % d)
            \o <<(rem * Base + a[i]) \div d>>
\* a \div d for 0 < d < Base
wDivSmall(a, d) == wDivSmallFrom(a, d, NLimbs, 0)

\* a * 2^n and a \div 2^n
wShl(a, n) == wShiftLimbs(wMulSmall(a, 2 ^ (n % LimbBits)), n \div LimbBits)
wShr(a, n) == wDivSmall(wDropLimbs(a, n \div LimbBits), 2 ^ (n % LimbBits))

RECURSIVE bits(_)
bits(n) == IF n = 0 THEN 0 ELSE 1 + bits(n \div 2)
RECURSIVE bitLenFrom(_, _)
bitLenFrom(a, i) ==
    IF i = 0 THEN 0
    ELSE IF a[i] # 0 THEN (i - 1) * LimbBits + bits(a[i])
    ELSE bitLenFrom(a, i - 1)
bitLen(a) == bitLenFrom(a, NLimbs)

Zero == [sign |-> 1, man |-> wide(0), exp |-> 0]

\* the double nearest to n * 2^e (or to a value just above it when sticky),
\* ties to even
roundToDouble(n, e, sticky) ==
    LET len == bitLen(n)
        d == len - MantissaBits
    IN  IF len = 0 THEN Zero
        ELSE IF d <= 0 THEN [sign |-> 1, man |-> wShl(n, -d), exp |-> e + d]
        ELSE LET kept == wShr(n, d)
                 rest == wSub(n, wShl(kept, d))
                 cmp == wCmp(rest, wShl(wide(1), d - 1))
                 up == cmp > 0 \/ (cmp = 0 /\ (sticky \/ kept[1] % 2 = 1))
                 rounded == IF up THEN wAdd(kept, wide(1)) ELSE kept
             IN  IF bitLen(rounded) > MantissaBits
                 THEN [sign |-> 1, man |-> wShr(rounded, 1), exp |-> e + d + 1]
                 ELSE [sign |-> 1, man |-> rounded, exp |-> e + d]

\* the double of a natural number below 2^45
fromInt(n) == roundToDouble(wide(n), 0, FALSE)
One == fromInt(1)
fNeg(x) == [x EXCEPT !.sign = -1 * x.sign]

fMul(x, y) ==
    IF x = Zero \/ y = Zero THEN Zero
    ELSE [roundToDouble(wMul(x.man, y.man), x.exp + y.exp, FALSE)
            EXCEPT !.sign = x.sign * y.sign]

\* one digit of a long division in base 2^15: the greatest q with q * d <= r,
\* for r < d * Base and d of DivLimbs digits with its top bit set; the quotient
\* of the leading digits is at least q
RECURSIVE fixDigit(_, _, _)
fixDigit(r, d, q) ==
    IF wCmp(wMulSmall(d, q), r) > 0 THEN fixDigit(r, d, q - 1) ELSE q
DivLimbs == 4
quotientDigit(r, d) ==
    fixDigit(r, d, Min(Base - 1,
                       (r[DivLimbs + 1] * Base + r[DivLimbs]) \div d[DivLimbs]))

\* n more digits of the quotient q of a long division with remainder r
RECURSIVE divLimbs(_, _, _, _)
divLimbs(r, d, n, q) ==
    IF n = 0 THEN [quotient |-> q, remainder |-> r]
    ELSE LET shifted == wShiftLimbs(r, 1)
             digit == quotientDigit(shifted, d)
             rest == wSub(shifted, wMulSmall(d, digit))
         IN  IF rest = wide(0)
             THEN [quotient |-> wShiftLimbs(wAdd(wShiftLimbs(q, 1), wide(digit)), n - 1),
                   remainder |-> rest]
             ELSE divLimbs(rest, d, n - 1, wAdd(wShiftLimbs(q, 1), wide(digit)))

\* x / y for y # 0: the quotient of the mantissas to DivLimbs digits and a
\* sticky bit for the remainder, then rounded once
fDiv(x, y) ==
    IF x = Zero \/ y = Zero THEN Zero
    ELSE LET up == DivLimbs * LimbBits - MantissaBits
             n == wShl(x.man, up)
             d == wShl(y.man, up)
             first == IF wCmp(n, d) >= 0 THEN 1 ELSE 0
             res == divLimbs(wSub(n, wMulSmall(d, first)), d, DivLimbs,
                             wide(first))
         IN  [roundToDouble(res.quotient,
                            x.exp - y.exp - DivLimbs * LimbBits,
                            res.remainder # wide(0))
                EXCEPT !.sign = x.sign * y.sign]

\* x + y for x, y >= 0
fAdd(x, y) ==
    IF x = Zero THEN y
    ELSE IF y = Zero THEN x
    ELSE LET e == Min(x.exp, y.exp)
         IN  roundToDouble(wAdd(wShl(x.man, x.exp - e), wShl(y.man, y.exp - e)),
                           e, FALSE)

\* x - y for x >= y >= 0
fSub(x, y) ==
    IF y = Zero THEN x
    ELSE LET e == Min(x.exp, y.exp)
         IN  roundToDouble(wSub(wShl(x.man, x.exp - e), wShl(y.man, y.exp - e)),
                           e, FALSE)

\* x < y, for x and y not both negative
fLess(x, y) ==
    IF x.sign # y.sign THEN x.sign < y.sign
    ELSE IF y = Zero THEN FALSE
    ELSE IF x = Zero THEN TRUE
    ELSE x.exp < y.exp \/ (x.exp = y.exp /\ wCmp(x.man, y.man) < 0)

\* Math.min and Math.max
fMin(x, y) == IF fLess(y, x) THEN y ELSE x
fMax(x, y) == IF fLess(x, y) THEN y ELSE x
\* x % y for 0 <= x < 2 * y
fRem(x, y) == IF fLess(x, y) THEN x ELSE fSub(x, y)

\* ---------- Sleep-aware calendar coordinates, as the doubles of the code ----------
CAL_HEIGHT_PX_Double(sc) ==
    fMul(fromInt(AWAKE_MINUTES(sc)), fDiv(fromInt(40), fromInt(60)))

Hidden_Double == fNeg(One)

timeToDisplayPosition_Double(sc, timeMinutes) ==
    LET normalizedTime == ((timeMinutes % DAY_MINUTES) + DAY_MINUTES) % DAY_MINUTES
        asleep ==
            IF sleepStart(sc) < sleepEnd(sc)
            THEN normalizedTime >= sleepStart(sc) /\ normalizedTime < sleepEnd(sc)
            ELSE normalizedTime >= sleepStart(sc) \/ normalizedTime < sleepEnd(sc)
        fromWakeUp ==
            IF sleepStart(sc) < sleepEnd(sc) /\ normalizedTime < sleepEnd(sc)
            THEN normalizedTime + DAY_MINUTES - sleepEnd(sc)
            ELSE normalizedTime - sleepEnd(sc)
        minutesFromWakeUp == Max(0, Min(AWAKE_MINUTES(sc), fromWakeUp))
    IN  IF asleep THEN Hidden_Double
        ELSE fMul(fDiv(fromInt(minutesFromWakeUp), fromInt(AWAKE_MINUTES(sc))),
                  CAL_HEIGHT_PX_Double(sc))

displayPositionToTime_Double(sc, position) ==
    LET awakeRatio ==
            fMax(Zero, fMin(One, fDiv(position, CAL_HEIGHT_PX_Double(sc))))
        minutesFromWakeUp == fMul(awakeRatio, fromInt(AWAKE_MINUTES(sc)))
    IN  fRem(fAdd(fromInt(sleepEnd(sc)), minutesFromWakeUp),
             fromInt(DAY_MINUTES))

\* ---------- Drag and drop: state updaters ----------
\* the rendered height of an activity block
blockHeight(sc, a) ==
    Max(18 * UnitsPerPx, (a.duration * CAL_HEIGHT_PX(sc)) \div AWAKE_MINUTES(sc))

\* the calendar renders a block, and so a drag handle, for these activities
isRendered(sc, a) ==
    a.category # "Sleep" /\ timeToDisplayPosition(sc, toMinutes(a.start)) >= 0

dragStartUpdate(sc, activity, clientY, offsetY) ==
    [isDragging |-> TRUE, draggedActivity |-> Some(activity),
     dragOffsetY |-> offsetY, startY |-> clientY,
     shadowPosition |->
        Some([top |-> timeToDisplayPosition(sc, toMinutes(activity.start)),
              startTime |-> activity.start]),
     currentMouseY |-> clientY,
     justFinishedDrag |-> FALSE, hasMoved |-> FALSE]

Abs(x) == IF x < 0 THEN -x ELSE x

\* onDragMove that treats a move of exactly 3 px as a drag
dragMoveUpdate_AtThreshold(sc, prev, clientY) ==
    IF Abs(clientY - prev.startY) >= 3 * UnitsPerPx
    THEN LET clamped == clampedMinutes(snappedMinutes(
                 displayPositionToTime(sc, clientY - prev.dragOffsetY)))
         IN  [prev EXCEPT !.hasMoved = TRUE, !.currentMouseY = clientY,
                          !.shadowPosition =
                              Some([top |-> timeToDisplayPosition(sc, clamped),
                                    startTime |-> toHHMM(clamped)])]
    ELSE prev

\* both setDragState calls of onDragMove; pointer positions are relative to the
\* top of the calendar
dragMoveUpdate(sc, prev, clientY) ==
    LET moveDistance == Abs(clientY - prev.startY)
    IN  IF moveDistance > 3 * UnitsPerPx
        THEN LET activityTopRelativeToCalendar == clientY - prev.dragOffsetY
                 newTimeMinutes ==
                     displayPositionToTime(sc, activityTopRelativeToCalendar)
                 clamped == clampedMinutes(snappedMinutes(newTimeMinutes))
             IN  [prev EXCEPT !.hasMoved = TRUE, !.currentMouseY = clientY,
                              !.shadowPosition =
                                  Some([top |-> timeToDisplayPosition(sc, clamped),
                                        startTime |-> toHHMM(clamped)])]
        ELSE prev

\* onDragEnd's reschedule that rebuilds the dragged activity from the shadow
reschedule_DropsDuration(acts, id, newStartTime) ==
    [i \in 1..Len(acts) |->
        IF acts[i].id = id
        THEN [acts[i] EXCEPT !.start = newStartTime, !.duration = 15]
        ELSE acts[i]]

\* prev.map(a => a.id === id ? { ...a, start: newStartTime } : a)
reschedule(acts, id, newStartTime) ==
    [i \in 1..Len(acts) |->
        IF acts[i].id = id THEN [acts[i] EXCEPT !.start = newStartTime]
        ELSE acts[i]]

\* ---------- Drag and drop: actions ----------
\* mouse-down on the block of a rendered activity, offsetY below its top edge
onDragStart ==
    /\ ~dragState.isDragging
    /\ \E i \in 1..Len(activities), offsetY \in DownOffsets :
          LET a == activities[i]
              top == timeToDisplayPosition(sleepConfig, toMinutes(a.start))
          IN  /\ isRendered(sleepConfig, a)
              /\ offsetY < blockHeight(sleepConfig, a)
              /\ dragState' = dragStartUpdate(sleepConfig, a, top + offsetY, offsetY)
    /\ movedBeyond' = FALSE
    /\ lastMoveY' = None
    /\ UNCHANGED <<activities, form, pendingClears, clickedAt, nowMin,
                   alertShown>>
    /\ UNCHANGED timerVars /\ UNCHANGED sleepConfig

\* a mouse-move that writes the proposed start into the list at once
onDragMove_Commits ==
    /\ dragState.isDragging
    /\ \E delta \in MoveDeltas :
          /\ dragState' = dragMoveUpdate(sleepConfig, dragState,
                                         dragState.startY + delta)
          /\ movedBeyond' = (movedBeyond \/ Abs(delta) > 9)
          /\ lastMoveY' = Some(dragState.startY + delta)
    /\ activities' =
          IF dragState'.hasMoved
          THEN reschedule(activities, dragState.draggedActivity[1].id,
                          dragState'.shadowPosition[1].startTime)
          ELSE activities
    /\ UNCHANGED <<form, pendingClears, clickedAt, nowMin,
                   alertShown>>
    /\ UNCHANGED timerVars /\ UNCHANGED sleepConfig

\* mouse-move over the calendar, delta away from the pointer-down position
onDragMove ==
    /\ dragState.isDragging
    /\ \E delta \in MoveDeltas :
          /\ dragState' = dragMoveUpdate(sleepConfig, dragState,
                                         dragState.startY + delta)
          /\ movedBeyond' = (movedBeyond \/ Abs(delta) > 9)
          /\ lastMoveY' = Some(dragState.startY + delta)
    /\ UNCHANGED <<activities, form, pendingClears, clickedAt, nowMin,
                   alertShown>>
    /\ UNCHANGED timerVars /\ UNCHANGED sleepConfig

\* mouse-up on the calendar, or the pointer leaving it
onDragEnd ==
    /\ dragState.isDragging
    /\ pendingClears < MaxPendingClears
    /\ IF dragState.hasMoved /\ dragState.shadowPosition # None
       THEN /\ activities' = reschedule(activities,
                                        dragState.draggedActivity[1].id,
                                        dragState.shadowPosition[1].startTime)
            /\ UNCHANGED form
       ELSE /\ form' = dragState.draggedActivity[1]
            /\ UNCHANGED activities
    /\ dragState' = [EmptyDragState EXCEPT !.justFinishedDrag = TRUE]
    /\ pendingClears' = pendingClears + 1
    /\ lastMoveY' = None
    /\ UNCHANGED <<movedBeyond, clickedAt, nowMin,
                   alertShown>>
    /\ UNCHANGED timerVars /\ UNCHANGED sleepConfig

\* a setTimeout callback that leaves the flag set
ClearJustFinishedDrag_KeepsFlag ==
    /\ pendingClears > 0
    /\ pendingClears' = pendingClears - 1
    /\ UNCHANGED <<activities, form, dragState, movedBeyond, clickedAt, nowMin,
                   alertShown, lastMoveY>>
    /\ UNCHANGED timerVars /\ UNCHANGED sleepConfig

\* the setTimeout callback of onDragEnd, 50 ms after a gesture ended
ClearJustFinishedDrag ==
    /\ pendingClears > 0
    /\ pendingClears' = pendingClears - 1
    /\ dragState' = [dragState EXCEPT !.justFinishedDrag = FALSE]
    /\ UNCHANGED <<activities, form, movedBeyond, clickedAt, nowMin,
                   alertShown, lastMoveY>>
    /\ UNCHANGED timerVars /\ UNCHANGED sleepConfig

\* ---------- Quick add ----------
MaxActivities == 3

\* crypto.randomUUID(): identifiers that no activity carries yet
FreshIds == <<"quick-1", "quick-2", "quick-3">>
RECURSIVE freshIdFrom(_, _)
freshIdFrom(acts, i) ==
    IF FreshIds[i] \in Ids(acts) THEN freshIdFrom(acts, i + 1) ELSE FreshIds[i]
freshId(acts) == freshIdFrom(acts, 1)

\* click positions below the top of the calendar, thirds of a pixel; with the
\* default sleep configuration 734 is 14:07; with sleep from 02:00 for seven
\* hours 1790 is 23:55
ClickPositions == {0, 734, 1790}

\* the start time onCalendarClick gives the new activity
clickTime(sc, clickY) ==
    toHHMM(clampedMinutes(snappedMinutes(displayPositionToTime(sc, clickY))))

\* a quick-add activity that is not given the fixed title
newActivity_Untitled(id, start) ==
    [id |-> id, title |-> "", category |-> "Other",
     start |-> start, duration |-> 15]

newActivity(id, start) ==
    [id |-> id, title |-> "Quick Task", category |-> "Other",
     start |-> start, duration |-> 15]

\* a click on the calendar background, clickY below the top of the calendar; the
\* browser delivers no click while a button is held down on a block
onCalendarClick ==
    /\ ~dragState.isDragging
    /\ \E clickY \in ClickPositions :
          /\ clickY <= CAL_HEIGHT_PX(sleepConfig)
          /\ IF dragState.justFinishedDrag
             THEN UNCHANGED <<activities, clickedAt>>
             ELSE /\ Len(activities) < MaxActivities
                  /\ activities' =
                        Append(activities,
                               newActivity(freshId(activities),
                                           clickTime(sleepConfig, clickY)))
                  /\ clickedAt' = clickY
    /\ UNCHANGED <<form, dragState, pendingClears, movedBeyond, nowMin,
                   alertShown, lastMoveY>>
    /\ UNCHANGED timerVars /\ UNCHANGED sleepConfig

\* ---------- Specification of the drag gesture ----------
InitDrag ==
    /\ activities = DragActivities
    /\ form = InitialForm
    /\ sleepConfig \in SleepConfigs
    /\ clock = Epoch
    /\ timerState = InitialTimerState
    /\ focusMode = InitialFocusMode
    /\ dragState = EmptyDragState
    /\ notifications = 0
    /\ escClosure = [isRunning |-> FALSE, hasStartTime |-> FALSE]
    /\ pendingClears = 0
    /\ overlapSince = Null
    /\ movedBeyond = FALSE
    /\ clickedAt = Null
    /\ nowMin = InitialNowMin
    /\ alertShown = None
    /\ lastMoveY = None

NextDrag ==
    \/ onDragStart
    \/ onDragMove
    \/ onDragEnd
    \/ ClearJustFinishedDrag

SpecDrag == InitDrag /\ [][NextDrag]_vars

\* ---------- Specification of gestures and background clicks ----------
ClickActivities ==
    << [id |-> "seed-1", title |-> "Work", category |-> "Work",
        start |-> HHMM(9, 32), duration |-> 480] >>

\* the default, and one whose awake span runs past midnight
ClickSleepConfigs ==
    { [start |-> HHMM(23, 0), duration |-> 540],
      [start |-> HHMM(2, 0), duration |-> 420] }

InitClick ==
    /\ activities = ClickActivities
    /\ form = InitialForm
    /\ sleepConfig \in ClickSleepConfigs
    /\ clock = Epoch
    /\ timerState = InitialTimerState
    /\ focusMode = InitialFocusMode
    /\ dragState = EmptyDragState
    /\ notifications = 0
    /\ escClosure = [isRunning |-> FALSE, hasStartTime |-> FALSE]
    /\ pendingClears = 0
    /\ overlapSince = Null
    /\ movedBeyond = FALSE
    /\ clickedAt = Null
    /\ nowMin = InitialNowMin
    /\ alertShown = None
    /\ lastMoveY = None

\* presses and releases on a block, their delayed callbacks, and clicks on the
\* background
NextClick ==
    \/ onDragStart
    \/ onDragEnd
    \/ ClearJustFinishedDrag
    \/ onCalendarClick

SpecClick == InitClick /\ [][NextClick]_vars

\* ---------- Specification of the gesture cycle, with its timers firing ----------
\* a timer set by setTimeout fires: the callback of onDragEnd is not postponed
\* forever
NextCycle == NextDrag

SpecCycle ==
    InitClick /\ [][NextCycle]_vars /\ WF_vars(ClearJustFinishedDrag)

\* ---------- Specification of the focus timer ----------
InitTimer ==
    /\ activities = TimerActivities
    /\ form = InitialForm
    /\ sleepConfig = DefaultSleepConfig
    /\ clock = Epoch
    /\ timerState = InitialTimerState
    /\ focusMode = InitialFocusMode
    /\ dragState = EmptyDragState
    /\ notifications = 0
    /\ escClosure = [isRunning |-> FALSE, hasStartTime |-> FALSE]
    /\ pendingClears = 0
    /\ overlapSince = Null
    /\ movedBeyond = FALSE
    /\ clickedAt = Null
    /\ nowMin = InitialNowMin
    /\ alertShown = None
    /\ lastMoveY = None

NextTimer ==
    \/ AdvanceClock
    \/ Tick
    \/ startTimer
    \/ pauseTimer
    \/ resumeTimer
    \/ stopTimer
    \/ toggleFocusMode
    \/ EscapeKey

SpecTimer == InitTimer /\ [][NextTimer]_vars

\* ---------- Availability: derived values ----------
\* [...activities].sort((a, b) => toMinutes(a.start) - toMinutes(b.start)):
\* a stable sort, so equal starts keep their list order
RECURSIVE insertSorted(_, _)
insertSorted(a, done) ==
    IF done = <<>> THEN <<a>>
    ELSE IF toMinutes(Head(done).start) > toMinutes(a.start) THEN <<a>> \o done
    ELSE <<Head(done)>> \o insertSorted(a, Tail(done))

RECURSIVE sortedFrom(_, _, _)
sortedFrom(acts, i, done) ==
    IF i > Len(acts) THEN done
    ELSE sortedFrom(acts, i + 1, insertSorted(acts[i], done))

sorted(acts) == sortedFrom(acts, 1, <<>>)

\* sorted.find(...) || null, with a start before nowMin accepted
nextActivity_InProgress(acts, now) ==
    LET upcoming == SelectSeq(sorted(acts),
                        LAMBDA a : a.category # "Sleep"
                                   /\ toMinutes(a.start) + a.duration > now)
    IN  IF upcoming = <<>> THEN None ELSE Some(Head(upcoming))

\* sorted.find(a => a.category !== 'Sleep' && toMinutes(a.start) >= nowMin)
\* || null
nextActivity(acts, now) ==
    LET upcoming == SelectSeq(sorted(acts),
                        LAMBDA a : a.category # "Sleep"
                                   /\ toMinutes(a.start) >= now)
    IN  IF upcoming = <<>> THEN None ELSE Some(Head(upcoming))

\* nextSleep that moves to tomorrow already at the minute sleep begins
nextSleep_Strict(sc, now) ==
    LET sleepStartMinutes == toMinutes(sc.start)
    IN  [start |-> sc.start,
         startMinutes |-> IF now < sleepStartMinutes
                          THEN sleepStartMinutes
                          ELSE sleepStartMinutes + 24 * 60,
         duration |-> sc.duration]

nextSleep(sc, now) ==
    LET sleepStartMinutes == toMinutes(sc.start)
    IN  [start |-> sc.start,
         startMinutes |-> IF now <= sleepStartMinutes
                          THEN sleepStartMinutes
                          ELSE sleepStartMinutes + 24 * 60,
         duration |-> sc.duration]

\* the overlap without its floor at 0
overlapMins_Signed(a1, a2, b1, b2) == Min(a2, b2) - Max(a1, b1)

\* Math.max(0, Math.min(a2, b2) - Math.max(a1, b1))
overlapMins(a1, a2, b1, b2) == Max(0, Min(a2, b2) - Max(a1, b1))

\* the interval of an activity, never moved to tomorrow
adjusted_NoShift(a, now, horizonB) ==
    [start |-> toMinutes(a.start), end |-> toMinutes(a.start) + a.duration]

\* adjustedStart and adjustedEnd of freeUntilSleep's loop body
adjusted(a, now, horizonB) ==
    LET aStart == toMinutes(a.start)
        aEnd == aStart + a.duration
    IN  IF horizonB > 24 * 60 /\ aStart < now
        THEN [start |-> aStart + 24 * 60, end |-> aEnd + 24 * 60]
        ELSE [start |-> aStart, end |-> aEnd]

\* what one pass of the loop adds to busy
busyOf(a, sc, now) ==
    LET horizonB == nextSleep(sc, now).startMinutes
        adj == adjusted(a, now, horizonB)
    IN  overlapMins(now, horizonB, adj.start, adj.end)

RECURSIVE busyFrom(_, _, _, _)
busyFrom(acts, i, sc, now) ==
    IF i > Len(acts) THEN 0
    ELSE busyOf(acts[i], sc, now) + busyFrom(acts, i + 1, sc, now)

\* busy after the loop over sorted
busy(acts, sc, now) == busyFrom(sorted(acts), 1, sc, now)

freeUntilSleep(acts, sc, now) ==
    LET horizonA == now
        horizonB == nextSleep(sc, now).startMinutes
        span == Max(0, horizonB - horizonA)
    IN  clamp(span - busy(acts, sc, now), 0, span)

\* ---------- Availability: inputs and actions ----------
\* minutes of the day the clock is read at
NowMins == {0, 7, 9 * 60, 14 * 60 + 30, 23 * 60, 23 * 60 + 1, 23 * 60 + 30,
            23 * 60 + 59}
\* sleep start times and durations offered by the configuration panel
SleepStarts == {HHMM(23, 0), HHMM(15, 0), HHMM(1, 0)}
SleepHours == {4, 9}

AvailActivities ==
    << [id |-> "seed-0", title |-> "Sleep", category |-> "Sleep",
        start |-> HHMM(23, 0), duration |-> 540],
       [id |-> "seed-1", title |-> "Work", category |-> "Work",
        start |-> HHMM(9, 30), duration |-> 480],
       [id |-> "nap", title |-> "Nap", category |-> "Sleep",
        start |-> HHMM(14, 0), duration |-> 60],
       [id |-> "run", title |-> "Run", category |-> "Gym",
        start |-> HHMM(6, 0), duration |-> 60],
       [id |-> "film", title |-> "Film", category |-> "Hobby",
        start |-> HHMM(23, 0), duration |-> 120],
       [id |-> "standup", title |-> "Standup", category |-> "Work",
        start |-> HHMM(9, 30), duration |-> 15] >>

\* the interval callback setNow(new Date())
setNow ==
    /\ \E m \in NowMins : nowMin' = m
    /\ UNCHANGED <<activities, form, dragState, pendingClears, movedBeyond,
                   clickedAt,
                   alertShown, lastMoveY>>
    /\ UNCHANGED timerVars /\ UNCHANGED sleepConfig

\* the sleep start selector of the configuration panel
setSleepStart ==
    /\ \E time \in SleepStarts : sleepConfig' = [sleepConfig EXCEPT !.start = time]
    /\ UNCHANGED dragVars /\ UNCHANGED timerVars

\* the sleep duration selector of the configuration panel
setSleepDuration ==
    /\ \E hours \in SleepHours :
          sleepConfig' = [sleepConfig EXCEPT !.duration = hours * 60]
    /\ UNCHANGED dragVars /\ UNCHANGED timerVars

\* prev.filter((a) => a.id !== id)
deleteUpdate(prev, id) == SelectSeq(prev, LAMBDA a : a.id # id)

\* the timer's activity, null when the timer has none or it is no longer listed
currentActivity(acts, ts) ==
    IF ts.activityId # NoId /\ find(acts, ts.activityId) # 0
    THEN Some(acts[find(acts, ts.activityId)])
    ELSE None

\* a delete that also resets the timer of the deleted activity
onDelete_ResetsTimer ==
    /\ \E i \in 1..Len(activities) :
          /\ activities' = deleteUpdate(activities, activities[i].id)
          /\ timerState' = IF timerState.activityId = activities[i].id
                           THEN InitialTimerState ELSE timerState
    /\ UNCHANGED <<form, dragState, pendingClears, movedBeyond, clickedAt,
                   nowMin, alertShown, lastMoveY>>
    /\ UNCHANGED <<focusMode, clock, notifications, escClosure, overlapSince>>
    /\ UNCHANGED sleepConfig

\* the delete button of a listed activity
onDelete ==
    /\ \E i \in 1..Len(activities) :
          activities' = deleteUpdate(activities, activities[i].id)
    /\ UNCHANGED <<form, dragState, pendingClears, movedBeyond, clickedAt,
                   nowMin,
                   alertShown, lastMoveY>>
    /\ UNCHANGED timerVars /\ UNCHANGED sleepConfig

\* the Clear All button, confirmed
onClearAll ==
    /\ activities' = <<>>
    /\ UNCHANGED <<form, dragState, pendingClears, movedBeyond, clickedAt,
                   nowMin, alertShown, lastMoveY>>
    /\ UNCHANGED timerVars /\ UNCHANGED sleepConfig

\* ---------- Specification of the availability panel ----------
InitAvail ==
    /\ activities = AvailActivities
    /\ form = InitialForm
    /\ sleepConfig = DefaultSleepConfig
    /\ clock = Epoch
    /\ timerState = InitialTimerState
    /\ focusMode = InitialFocusMode
    /\ dragState = EmptyDragState
    /\ notifications = 0
    /\ escClosure = [isRunning |-> FALSE, hasStartTime |-> FALSE]
    /\ pendingClears = 0
    /\ overlapSince = Null
    /\ movedBeyond = FALSE
    /\ clickedAt = Null
    /\ nowMin = InitialNowMin
    /\ alertShown = None
    /\ lastMoveY = None

NextAvail ==
    \/ setNow
    \/ setSleepStart
    \/ setSleepDuration
    \/ onDelete

SpecAvail == InitAvail /\ [][NextAvail]_vars

\* ---------- Add/edit form ----------
\* the findings of validate, in the order it collects them
DurationPositive == "Duration must be a positive number"
EndsAfterMidnight == "Activity ends after midnight"
OverlapWarning == "Warning: overlaps with existing activities"

\* the existing activities the form's interval overlaps, the edited one aside
overlaps(f, all) ==
    SelectSeq(all, LAMBDA a :
        /\ ~(f.id # NoId /\ a.id = f.id)
        /\ overlapMins(toMinutes(a.start), toMinutes(a.start) + a.duration,
                       toMinutes(f.start), toMinutes(f.start) + f.duration) > 0)

\* the start of the form always matches HH:MM (TimeSelector formats it), so
\* the finding "Start time is required" never arises
validate(f, all) ==
    (IF f.duration <= 0 THEN <<DurationPositive>> ELSE <<>>)
        \o (IF toMinutes(f.start) + f.duration > 24 * 60
            THEN <<EndsAfterMidnight>> ELSE <<>>)
        \o (IF Len(overlaps(f, all)) > 0 THEN <<OverlapWarning>> ELSE <<>>)

\* the list after an accepted submit: the edited activity replaced, or the new
\* one appended under a fresh id
submitUpdate(prev, f) ==
    IF f.id # NoId
    THEN [i \in 1..Len(prev) |-> IF prev[i].id = f.id THEN f ELSE prev[i]]
    ELSE Append(prev, [f EXCEPT !.id = freshId(prev)])

\* start times and durations entered in the form
FormStarts == {HHMM(9, 0), HHMM(23, 30)}
FormDurations == {0, 30, 60}

\* the start time selector of the form
setFormStart ==
    /\ \E time \in FormStarts : form' = [form EXCEPT !.start = time]
    /\ UNCHANGED <<activities, dragState, pendingClears, movedBeyond, clickedAt,
                   nowMin, alertShown, lastMoveY>>
    /\ UNCHANGED timerVars /\ UNCHANGED sleepConfig

\* the duration input of the form
setFormDuration ==
    /\ \E minutes \in FormDurations : form' = [form EXCEPT !.duration = minutes]
    /\ UNCHANGED <<activities, dragState, pendingClears, movedBeyond, clickedAt,
                   nowMin, alertShown, lastMoveY>>
    /\ UNCHANGED timerVars /\ UNCHANGED sleepConfig

\* the Edit button of a listed activity
onEdit ==
    /\ \E i \in 1..Len(activities) : form' = activities[i]
    /\ UNCHANGED <<activities, dragState, pendingClears, movedBeyond, clickedAt,
                   nowMin, alertShown, lastMoveY>>
    /\ UNCHANGED timerVars /\ UNCHANGED sleepConfig

\* the Add/Update button: any finding of validate is shown in an alert and the
\* submit is abandoned
onSubmit ==
    /\ LET errors == validate(form, activities)
       IN  IF Len(errors) > 0
           THEN /\ alertShown' = Some(errors)
                /\ UNCHANGED <<activities, form>>
           ELSE /\ form.id = NoId => Len(activities) < MaxActivities
                /\ activities' = submitUpdate(activities, form)
                /\ form' = InitialForm
                /\ UNCHANGED alertShown
    /\ UNCHANGED <<dragState, pendingClears, movedBeyond, clickedAt, nowMin,
                   lastMoveY>>
    /\ UNCHANGED timerVars /\ UNCHANGED sleepConfig

\* ---------- Specification of the form ----------
FormActivities ==
    << [id |-> "seed-1", title |-> "Work", category |-> "Work",
        start |-> HHMM(9, 30), duration |-> 480],
       [id |-> "seed-2", title |-> "Gym", category |-> "Gym",
        start |-> HHMM(18, 15), duration |-> 60] >>

InitForm ==
    /\ activities = FormActivities
    /\ form = InitialForm
    /\ sleepConfig = DefaultSleepConfig
    /\ clock = Epoch
    /\ timerState = InitialTimerState
    /\ focusMode = InitialFocusMode
    /\ dragState = EmptyDragState
    /\ notifications = 0
    /\ escClosure = [isRunning |-> FALSE, hasStartTime |-> FALSE]
    /\ pendingClears = 0
    /\ overlapSince = Null
    /\ movedBeyond = FALSE
    /\ clickedAt = Null
    /\ nowMin = InitialNowMin
    /\ alertShown = None
    /\ lastMoveY = None

NextForm ==
    \/ setFormStart
    \/ setFormDuration
    \/ onEdit
    \/ onSubmit
    \/ onDelete

SpecForm == InitForm /\ [][NextForm]_vars

\* ---------- Specification of the focus timer with a changing list ----------
NextTimerList ==
    \/ NextTimer
    \/ onDelete
    \/ onClearAll

SpecTimerList == InitTimer /\ [][NextTimerList]_vars

\* ---------- Specification of the calendar under its sleep configurations ----------
\* sleep configurations read from planner.sleepConfig when the component is
\* constructed: the default, and two whose duration is not a whole number of
\* hours
StoredSleepConfigs ==
    { DefaultSleepConfig,
      [start |-> HHMM(1, 40), duration |-> 450],
      [start |-> HHMM(23, 0), duration |-> 479] }

InitCalendar ==
    /\ activities = AvailActivities
    /\ form = InitialForm
    /\ sleepConfig \in StoredSleepConfigs
    /\ clock = Epoch
    /\ timerState = InitialTimerState
    /\ focusMode = InitialFocusMode
    /\ dragState = EmptyDragState
    /\ notifications = 0
    /\ escClosure = [isRunning |-> FALSE, hasStartTime |-> FALSE]
    /\ pendingClears = 0
    /\ overlapSince = Null
    /\ movedBeyond = FALSE
    /\ clickedAt = Null
    /\ nowMin = InitialNowMin
    /\ alertShown = None
    /\ lastMoveY = None

NextCalendar ==
    \/ setNow
    \/ setSleepStart
    \/ setSleepDuration

SpecCalendar == InitCalendar /\ [][NextCalendar]_vars

\* ---------- Properties of the focus timer ----------
sessions == timerState.focusSessions

\* C1: every pause or stop executed while focus mode is enabled appends exactly
\* one record to focusSessions, and the records never overlap: each record
\* starts no earlier than the record before it ended.
C1_OneRecordPerTransitionNoOverlap ==
    [][ /\ ((pauseTimer \/ stopTimer) /\ focusMode.isEnabled)
            => Len(sessions') = Len(sessions) + 1
        /\ \A i \in 2..Len(sessions') :
              sessions'[i].startTime >= sessions'[i - 1].endTime ]_vars

\* C2: every record appended to focusSessions covers only time during which
\* the timer was running and focus mode was enabled: both have held without
\* interruption since an instant no later than the record's startTime, up to
\* its endTime.
C2_RecordsCoverOnlyRunningFocusTime ==
    [][ \A i \in 1..Len(sessions') :
          i > Len(sessions) =>
             /\ overlapSince # Null
             /\ overlapSince <= sessions'[i].startTime
             /\ sessions'[i].startTime <= sessions'[i].endTime
             /\ sessions'[i].endTime <= clock ]_vars

C4_PausedTimeNotCounted ==
    [][ /\ pauseTimer => timerState'.elapsedTime = timerState.elapsedTime
        /\ (timerState.isPaused /\ timerState'.isPaused)
              => timerState'.elapsedTime = timerState.elapsedTime
        /\ (timerState.isPaused /\ Tick) => timerState' = timerState
        /\ resumeTimer =>
              /\ timerState'.elapsedTime = timerState.elapsedTime
              /\ timerState'.baseElapsedTime = timerState.elapsedTime
              /\ timerState'.startTime = clock ]_vars

\* a timer paused at the instant it was started, in focus mode, and resumed one
\* minute later: the minute spent paused is not in elapsedTime
C4_Witness ==
    /\ timerState.isRunning
    /\ timerState.elapsedTime = 0
    /\ timerState.baseElapsedTime = 0
    /\ timerState.startTime = clock
    /\ clock = Epoch + 60000
    /\ Len(sessions) = 1
    /\ sessions[1].startTime = Epoch
    /\ sessions[1].endTime = Epoch

\* C5: isRunning and isPaused are never both true.
C5_NotRunningAndPaused == ~(timerState.isRunning /\ timerState.isPaused)

C5_Witness ==
    /\ timerState.isPaused
    /\ ~timerState.isRunning
    /\ notifications = 1

\* C6: startTimer(activityId, customDurationMinutes) yields a running, non-paused
\* timer started at the current instant for the requested activity; elapsed and
\* base time are 0 for a new activity and the previous elapsedTime otherwise;
\* the target is customDurationMinutes*60 if given, else the activity's
\* duration*60, else 0.
C6_StartTimerResult ==
    [][ \A activityId \in Ids(activities) \cup {NoId},
           customDurationMinutes \in QuickMinutes \cup {Null} :
          startTimerWith(activityId, customDurationMinutes) =>
             /\ timerState'.isRunning /\ ~timerState'.isPaused
             /\ timerState'.startTime = clock
             /\ timerState'.activityId = activityId
             /\ timerState'.elapsedTime =
                   (IF activityId # timerState.activityId
                    THEN 0 ELSE timerState.elapsedTime)
             /\ timerState'.baseElapsedTime = timerState'.elapsedTime
             /\ timerState'.targetDuration =
                   (IF customDurationMinutes # Null
                    THEN customDurationMinutes * 60
                    ELSE IF \E i \in 1..Len(activities) :
                               activities[i].id = activityId
                    THEN (CHOOSE a \in {activities[i] : i \in 1..Len(activities)} :
                               a.id = activityId).duration * 60
                    ELSE 0)
             /\ timerState'.focusSessions = timerState.focusSessions ]_vars

\* the same activity started again after it completed: elapsed time is kept
C6_Witness ==
    /\ timerState.isRunning
    /\ timerState.activityId = "a1"
    /\ timerState.elapsedTime = 60
    /\ timerState.baseElapsedTime = 60
    /\ timerState.startTime = clock
    /\ timerState.targetDuration = 60

ZeroTimer(ts) ==
    /\ ~ts.isRunning /\ ~ts.isPaused
    /\ ts.elapsedTime = 0 /\ ts.baseElapsedTime = 0
    /\ ts.startTime = Null /\ ts.activityId = NoId /\ ts.targetDuration = 0

KeepsRecords(old, new) ==
    /\ Len(new) \in {Len(old), Len(old) + 1}
    /\ \A i \in 1..Len(old) : new[i] = old[i]

\* C7: stopTimer applied to any reachable timer state, with focus mode on or
\* off, yields the zero timer and keeps every existing focusSessions record in
\* place, appending at most one; and that is what a stop step does.
C7_StopResets ==
    /\ [] (\A focusEnabled \in BOOLEAN :
             LET after == stopTimerUpdate(timerState, focusEnabled, clock)
             IN  /\ ZeroTimer(after)
                 /\ KeepsRecords(sessions, after.focusSessions))
    /\ [][ stopTimer => /\ ZeroTimer(timerState')
                        /\ KeepsRecords(sessions, sessions') ]_vars

\* stopped in focus mode after an earlier record: two records, timer zeroed
C7_Witness ==
    /\ ZeroTimer(timerState)
    /\ Len(sessions) = 2
    /\ sessions[2].endTime = clock
    /\ sessions[1].endTime < clock

\* ---------- Properties of the drag gesture ----------
pressed == dragState.draggedActivity[1]

\* C8: when no pointer-move of the gesture was more than 3 px away from the
\* pointer-down position, the end of the gesture puts the pressed activity into
\* the edit form and leaves the activity list unchanged.
C8_SmallMoveIsEdit ==
    [][ (onDragEnd /\ ~movedBeyond) =>
          /\ form' = pressed
          /\ \E i \in 1..Len(activities) : activities[i] = form'
          /\ activities' = activities ]_vars

C8_Witness ==
    /\ ~dragState.isDragging
    /\ dragState.justFinishedDrag
    /\ ~movedBeyond
    /\ form = DragActivities[3]
    /\ activities = DragActivities

\* C9: when the 3 px threshold was crossed during the gesture, its end gives
\* the pressed activity a start that is a multiple of 15 minutes within
\* [00:00, 23:45], and the edit form is left alone.
C9_DragSnapsToGrid ==
    [][ (onDragEnd /\ movedBeyond) =>
          /\ form' = form
          /\ \E i \in 1..Len(activities) :
                /\ activities[i].id = pressed.id
                /\ activities'[i].start.h \in 0..23
                /\ activities'[i].start.m \in 0..59
                /\ (activities'[i].start.h * 60 + activities'[i].start.m) % 15 = 0
                /\ activities'[i].start.h * 60 + activities'[i].start.m <= 23 * 60 + 45
                /\ activities'[i].start = dragState.shadowPosition[1].startTime ]_vars

\* 18:13 dragged up by 10/3 px: 18:08 snaps to 18:15
C9_Witness ==
    /\ movedBeyond
    /\ dragState.justFinishedDrag
    /\ activities[3].start = HHMM(18, 15)
    /\ activities[2].start = HHMM(9, 32)

\* C10: a drag reschedule changes nothing but the start of the dragged
\* activity: the list keeps its length and order, the dragged activity keeps
\* id, title, category and duration, every other activity is unchanged.
C10_RescheduleChangesOnlyStart ==
    [][ (onDragEnd /\ movedBeyond) =>
          /\ Len(activities') = Len(activities)
          /\ \A i \in 1..Len(activities) :
                IF activities[i].id = pressed.id
                THEN /\ activities'[i].id = activities[i].id
                     /\ activities'[i].title = activities[i].title
                     /\ activities'[i].category = activities[i].category
                     /\ activities'[i].duration = activities[i].duration
                     /\ DOMAIN activities'[i] = DOMAIN activities[i]
                ELSE activities'[i] = activities[i] ]_vars

\* both draggable activities have been rescheduled
C10_Witness ==
    /\ activities[1] = DragActivities[1]
    /\ activities[2].start # DragActivities[2].start
    /\ activities[3].start # DragActivities[3].start
    /\ activities[2].duration = 480
    /\ activities[3].duration = 60

\* C11: a step after which a gesture is in progress (a pointer-down, or a
\* pointer-move) never changes the activity list; while the gesture lasts
\* nothing of it changes but the shadow, the pointer position and the moved
\* flag; the list changes only in the step that ends the gesture.
C11_ListChangesOnlyAtGestureEnd ==
    [][ /\ dragState'.isDragging => activities' = activities
        /\ (dragState.isDragging /\ dragState'.isDragging) =>
              /\ form' = form
              /\ dragState'.draggedActivity = dragState.draggedActivity
              /\ dragState'.dragOffsetY = dragState.dragOffsetY
              /\ dragState'.startY = dragState.startY
        /\ activities' # activities =>
              /\ dragState.isDragging
              /\ ~dragState'.isDragging
              /\ dragState'.justFinishedDrag ]_vars

\* Gym pressed and moved: the shadow proposes 18:15, the list still says 18:13
C11_Witness ==
    /\ dragState.isDragging
    /\ dragState.hasMoved
    /\ pressed.id = "seed-2"
    /\ dragState.shadowPosition[1].startTime = HHMM(18, 15)
    /\ activities = DragActivities

\* ---------- Properties of background clicks ----------
\* The callback of the latest completed gesture has not run.  It runs no
\* earlier than 50 ms after that gesture ended, and callbacks run in the order
\* they were set, so every instant of the suppression window is such a state.
inSuppressionWindow == pendingClears > 0

\* C12: a background click that arrives while the suppression window of a
\* completed gesture is open never creates an activity.
C12_NoQuickAddInWindow ==
    [][ (onCalendarClick /\ inSuppressionWindow) => activities' = activities ]_vars

\* C13: a background click outside the suppression window appends exactly one
\* activity, titled "Quick Task", of category Other and duration 15, starting
\* at a grid line nearest to the click position's time, capped at 23:45; the
\* activities already there are unchanged.
C13_QuickAdd ==
    [][ (onCalendarClick /\ ~inSuppressionWindow) =>
          /\ Len(activities') = Len(activities) + 1
          /\ SubSeq(activities', 1, Len(activities)) = activities
          /\ LET a == activities'[Len(activities')]
                 t == displayPositionToTime(sleepConfig, clickedAt')
             IN  /\ a.title = "Quick Task"
                 /\ a.category = "Other"
                 /\ a.duration = 15
                 /\ a.id \notin Ids(activities)
                 /\ \E g \in 0..96 :
                       /\ HalvesPerMinute * 15 * g - 15 <= t
                       /\ t <= HalvesPerMinute * 15 * g + 15
                       /\ a.start.h * 60 + a.start.m = Min(15 * g, 23 * 60 + 45) ]_vars

\* a click at the position of 14:07 added a Quick Task at 14:00 after Work
C13_Witness ==
    /\ sleepConfig = DefaultSleepConfig
    /\ clickedAt = 734
    /\ Len(activities) = 2
    /\ activities[1] = ClickActivities[1]
    /\ activities[2].title = "Quick Task"
    /\ activities[2].start = HHMM(14, 0)
    /\ activities[2].duration = 15

\* ---------- Properties of the availability panel ----------
horizonEnd == nextSleep(sleepConfig, nowMin).startMinutes
horizonSpan == horizonEnd - nowMin
free == freeUntilSleep(activities, sleepConfig, nowMin)

\* the start at which an activity is placed on the line of minutes that runs
\* from today 00:00 into tomorrow
placedStart(a) ==
    IF horizonEnd > DAY_MINUTES /\ toMinutes(a.start) < nowMin
    THEN toMinutes(a.start) + DAY_MINUTES
    ELSE toMinutes(a.start)

\* the minutes of the horizon [nowMin, horizonEnd) that an activity occupies
minutesInHorizon(a) ==
    Cardinality({t \in nowMin..(horizonEnd - 1) :
                    placedStart(a) <= t /\ t < placedStart(a) + a.duration})

RECURSIVE totalInHorizon(_, _)
totalInHorizon(acts, i) ==
    IF i > Len(acts) THEN 0
    ELSE minutesInHorizon(acts[i]) + totalInHorizon(acts, i + 1)

\* C14: free minutes are span - busy when busy <= span and 0 otherwise, busy
\* being the minutes of the horizon the activities occupy, added up activity
\* by activity; so 0 <= free <= span.
C14_FreeIsSpanMinusBusy ==
    LET total == totalInHorizon(activities, 1)
    IN  /\ free = IF total <= horizonSpan THEN horizonSpan - total ELSE 0
        /\ 0 <= free
        /\ free <= horizonSpan

\* sleep at 23:00, Work 09:30 for 480 minutes alone, now 09:00: 360 free
C14_Witness ==
    /\ sleepConfig = DefaultSleepConfig
    /\ nowMin = 9 * 60
    /\ Len(activities) = 1
    /\ activities[1].start = HHMM(9, 30)
    /\ activities[1].duration = 480
    /\ free = 360

nonSleep(acts) == SelectSeq(acts, LAMBDA a : a.category # "Sleep")

\* C15: a change of the list that touches only Sleep-category activities (one
\* added, removed or moved) never changes the free minutes.
C15_SleepActivitiesNotCounted ==
    [][ (activities' # activities /\ nonSleep(activities') = nonSleep(activities))
            => freeUntilSleep(activities', sleepConfig', nowMin') = free ]_vars

\* C16: when the horizon ends tomorrow, an activity that starts before nowMin
\* counts for the minutes of the horizon it occupies when placed a day later,
\* its whole duration if it then ends by the sleep onset; any other activity
\* counts for the minutes it occupies where it stands; an activity whose
\* placement misses the horizon counts for nothing.
C16_ShiftedPlacement ==
    \A i \in 1..Len(activities) :
        LET a == activities[i]
            counted == busyOf(a, sleepConfig, nowMin)
            shifted == horizonEnd > DAY_MINUTES /\ toMinutes(a.start) < nowMin
        IN  /\ counted = minutesInHorizon(a)
            /\ (shifted /\ placedStart(a) + a.duration <= horizonEnd)
                  => counted = a.duration
            /\ (placedStart(a) >= horizonEnd \/ placedStart(a) + a.duration <= nowMin)
                  => counted = 0

\* 23:30, sleep from 23:00: tomorrow's 06:00 run counts in full
C16_Witness ==
    /\ nowMin = 23 * 60 + 30
    /\ sleepConfig.start = HHMM(23, 0)
    /\ horizonEnd = 23 * 60 + DAY_MINUTES
    /\ \E i \in 1..Len(activities) :
          /\ activities[i].start = HHMM(6, 0)
          /\ busyOf(activities[i], sleepConfig, nowMin) = 60

\* C17: the next sleep onset is sleepStart when nowMin <= sleepStart and
\* sleepStart + 1440 otherwise: the earliest onset not before nowMin, at most
\* 1439 minutes away.
C17_NextSleepOccurrence ==
    LET start == toMinutes(sleepConfig.start)
    IN  /\ nowMin <= start => horizonEnd = start
        /\ nowMin > start => horizonEnd = start + DAY_MINUTES
        /\ horizonEnd >= nowMin
        /\ horizonEnd - DAY_MINUTES < nowMin
        /\ horizonSpan \in 0..(DAY_MINUTES - 1)

\* at 23:00 exactly, sleep from 23:00 begins now
C17_Witness ==
    /\ nowMin = 23 * 60
    /\ sleepConfig.start = HHMM(23, 0)
    /\ horizonEnd = 23 * 60
    /\ horizonSpan = 0

upcoming == {i \in 1..Len(activities) :
                activities[i].category # "Sleep"
                /\ toMinutes(activities[i].start) >= nowMin}

\* C18: the next upcoming activity is a non-Sleep activity that starts at or
\* after nowMin, none such starts earlier, and it is null exactly when there is
\* none.
C18_NextUpcomingActivity ==
    LET next == nextActivity(activities, nowMin)
    IN  /\ next = None <=> upcoming = {}
        /\ next # None =>
              \E i \in upcoming :
                  /\ activities[i] = next[1]
                  /\ \A j \in upcoming :
                        toMinutes(activities[i].start)
                            <= toMinutes(activities[j].start)

\* 14:30, Work began at 09:30 and runs until 17:30: the next one is the film
C18_Witness ==
    /\ nowMin = 14 * 60 + 30
    /\ \E i \in 1..Len(activities) :
          /\ activities[i].id = "seed-1"
          /\ toMinutes(activities[i].start) + activities[i].duration > nowMin
    /\ nextActivity(activities, nowMin) # None
    /\ nextActivity(activities, nowMin)[1].id = "film"

\* ---------- Properties of the calendar coordinates ----------
\* the minute of the day the clock shows, as the input of the coordinate
\* functions
awake(sc, m) == timeToDisplayPosition(sc, m) # Hidden

\* C19: for a sleep duration strictly between 0 and 1440 and a minute m of the
\* day outside the sleep interval, displayPositionToTime of
\* timeToDisplayPosition of m is m, exactly.
C19_RoundTripOnAwakeMinutes ==
    (/\ sleepConfig.duration > 0
     /\ sleepConfig.duration < DAY_MINUTES
     /\ nowMin \in 0..(DAY_MINUTES - 1)
     /\ awake(sleepConfig, nowMin))
        => displayPositionToTime_Double(sleepConfig,
               timeToDisplayPosition_Double(sleepConfig, nowMin))
            = fromInt(nowMin)

\* the minutes the coordinate functions are asked about: every minute of the
\* day, and the minutes of the clock a day earlier and a day later
CalendarMinutes ==
    (0..(DAY_MINUTES - 1))
        \cup {m - DAY_MINUTES : m \in NowMins} \cup {m + DAY_MINUTES : m \in NowMins}
\* m, reduced modulo 1440, lies in [sleepStart, sleepStart + duration) taken
\* modulo 1440
inSleepInterval(sc, m) == ((m - sleepStart(sc)) % DAY_MINUTES) < sc.duration

\* C20: timeToDisplayPosition returns the hidden sentinel exactly for the
\* minutes in the sleep interval, whether or not the interval wraps around
\* midnight, and for every other minute an offset from 0 to CAL_HEIGHT_PX;
\* the double the code computes for the minute on the clock is the sentinel
\* in the same case and lies in the same range.
C20_HiddenIffAsleep ==
    /\ \A m \in CalendarMinutes :
          LET position == timeToDisplayPosition(sleepConfig, m)
          IN  /\ position = Hidden <=> inSleepInterval(sleepConfig, m)
              /\ ~inSleepInterval(sleepConfig, m)
                    => position \in 0..CAL_HEIGHT_PX(sleepConfig)
    /\ LET position == timeToDisplayPosition_Double(sleepConfig, nowMin)
       IN  /\ position = Hidden_Double <=> inSleepInterval(sleepConfig, nowMin)
           /\ ~inSleepInterval(sleepConfig, nowMin)
                 => /\ ~fLess(position, Zero)
                    /\ ~fLess(CAL_HEIGHT_PX_Double(sleepConfig), position)

\* sleep from 01:00 to 05:00 does not wrap: 02:00 is hidden, and midnight,
\* before the sleep, is 19 hours after waking up, at 760 px of 800
C20_Witness ==
    /\ sleepConfig = [start |-> HHMM(1, 0), duration |-> 4 * 60]
    /\ sleepStart(sleepConfig) < sleepEnd(sleepConfig)
    /\ nowMin = 0
    /\ timeToDisplayPosition(sleepConfig, nowMin) = 760 * UnitsPerPx
    /\ timeToDisplayPosition(sleepConfig, 2 * 60) = Hidden
    /\ CAL_HEIGHT_PX(sleepConfig) = 800 * UnitsPerPx

\* ---------- Properties of the hour marks ----------
currentMarks == hourMarks(sleepConfig)
hourlyCount == AWAKE_MINUTES(sleepConfig) \div 60 + 1
lastHourly == (sleepEnd(sleepConfig) + 60 * (hourlyCount - 1)) % DAY_MINUTES

C22_OverlapDoesNotBlock ==
    [][ (onSubmit /\ validate(form, activities) = <<OverlapWarning>>)
            => activities' = submitUpdate(activities, form) ]_vars

\* ---------- Properties of the focus timer with a changing list ----------
orphaned == timerState.activityId # NoId
            /\ currentActivity(activities, timerState) = None

proposedStart(clientY) ==
    toHHMM(clampedMinutes(snappedMinutes(
        displayPositionToTime(sleepConfig, clientY - dragState.dragOffsetY))))

\* C24: once the threshold has been crossed, every pointer-move replaces the
\* proposed position by the snapped time of that move's pointer position, and
\* pointer-up commits the snapped time of the last pointer-move, also when the
\* pointer is back within 3 px of the pointer-down position.
C24_ShadowFollowsEveryMove ==
    [][ /\ (dragState.isDragging /\ dragState'.isDragging
            /\ dragState'.hasMoved /\ lastMoveY' # lastMoveY)
           => dragState'.shadowPosition[1].startTime
                  = proposedStart(lastMoveY'[1])
        /\ (dragState.isDragging /\ ~dragState'.isDragging
            /\ dragState.hasMoved /\ lastMoveY # None)
           => activities' = reschedule(activities,
                                       dragState.draggedActivity[1].id,
                                       proposedStart(lastMoveY[1])) ]_vars

\* ---------- Properties of the gesture cycle ----------
\* C25: pointer-up (or the pointer leaving the calendar) ends the gesture with
\* dragState at its empty value, apart from the click-suppression flag, which
\* is set; and a set flag is eventually cleared.
C25_CycleResetsAndFlagClears ==
    /\ [][ (dragState.isDragging /\ ~dragState'.isDragging)
              => /\ dragState'.draggedActivity = None
                 /\ dragState'.shadowPosition = None
                 /\ ~dragState'.hasMoved
                 /\ dragState' = [EmptyDragState EXCEPT !.justFinishedDrag = TRUE]
          ]_vars
    /\ (dragState.justFinishedDrag ~> ~dragState.justFinishedDrag)

\* a drag has moved the Work block, and every callback has run
C25_Witness ==
    /\ dragState = EmptyDragState
    /\ pendingClears = 0
    /\ activities # ClickActivities
    /\ Len(activities) = Len(ClickActivities)

\* ---------- Properties of the activities' extent ----------
endsByMidnight(a) == toMinutes(a.start) + a.duration <= DAY_MINUTES

\* C26: from a list in which every activity ends by midnight (the list the
\* gesture cycle starts from does), every activity of every later list ends
\* by midnight.
C26_ActivitiesEndByMidnight ==
    \A i \in 1..Len(activities) : endsByMidnight(activities[i])

\* C27: the start that a drag reschedule or a quick-add click gives an
\* activity lies outside the sleep interval: timeToDisplayPosition of it is
\* not the hidden sentinel.
C27_NewStartIsVisible ==
    [][ \A i \in 1..Len(activities') :
            (i > Len(activities) \/ activities'[i] # activities[i])
                => timeToDisplayPosition(sleepConfig,
                                         toMinutes(activities'[i].start)) # Hidden
      ]_vars


\* C28: right after a startTimer that sets a positive target the elapsed time
\* is below the target, and a tick signals the completion notification only
\* when at least one second has run since that start.
C28_StartBelowTarget ==
    [][ /\ (startTimer /\ timerState'.targetDuration > 0)
              => timerState'.elapsedTime < timerState'.targetDuration
        /\ (Tick /\ notifications' = notifications + 1)
              => clock - timerState.startTime >= 1000 ]_vars


\* C29: a non-Sleep activity in progress at nowMin (start < nowMin < start +
\* duration) adds its remaining minutes, up to the next sleep onset, to the busy
\* total, whether the horizon ends today or tomorrow.
C29_InProgressCountsRemaining ==
    \A i \in 1..Len(activities) :
        LET a == activities[i]
            aStart == toMinutes(a.start)
            aEnd == aStart + a.duration
        IN  (a.category # "Sleep" /\ aStart < nowMin /\ nowMin < aEnd)
               => busyOf(a, sleepConfig, nowMin) = Min(aEnd, horizonEnd) - nowMin

\* C30: no minute of the horizon [nowMin, next sleep onset) lies in the sleep
\* interval, so the horizon span and the free minutes are at most the awake
\* minutes of a day.
C30_HorizonHoldsNoSleep ==
    /\ \A m \in nowMin..(horizonEnd - 1) : ~inSleepInterval(sleepConfig, m)
    /\ horizonSpan <= AWAKE_MINUTES(sleepConfig)
    /\ free <= AWAKE_MINUTES(sleepConfig)

====
